---- MODULE Spec2Model ----
(***************************************************************************)
(* Model of the PokeBat battle server (src/PokeBat/server.go): roster      *)
(* selection (handlePokemonSelection), the battle loop (handleBattle),     *)
(* damage (calculateDamage), switching (switchPokemon) and the reward      *)
(* distribution (distributeExperience), as driven sequentially by main.    *)
(***************************************************************************)
EXTENDS Integers, Sequences, FiniteSets, TLC

VARIABLES
    pc,              \* position of main: "select", "selected", "battle", "loop", "defer", "exit"
    selecting,       \* player whose handlePokemonSelection call is running (0: none)
    pokedex,         \* pokedex1, pokedex2 of main: the two catalogs
    players,         \* gameState.Player1 / gameState.Player2: Pokemons and Active
    Turn,            \* gameState.Turn
    PlayerDone,      \* gameState.Player1Done / gameState.Player2Done
    i,               \* loop counter of handlePokemonSelection
    selectedIndexes, \* local map of handlePokemonSelection (its true keys)
    reqLog,          \* the messages the running handlePokemonSelection call has read
    lastRead,        \* the last message handleBattle read, and from whom
    sent,            \* the messages the last step wrote to each connection, in order
    closed,          \* closed[p]: player p's connection has been closed
    winner,          \* the player who was sent a win message (0: nobody)
    expCalls,        \* the invocations of distributeExperience: <<winner, loser>>
    beginSent,       \* beginSent[p]: the "battle will begin" notifications sent to p
    unwritable,      \* the connections on which Encode returns an error
    \* The map server (src/POKECAT1/poke.go), one grid row of it:
    world,           \* world[x]: the cell holds a Pokemon (Cell.Pokemon # nil)
    catPlayer,       \* the global player: the connection that registered it, or NoPlayer
    lock,            \* the goroutine that holds the mutex lock, or Nobody
    globalMutex,     \* the goroutine that holds the mutex globalMutex, or Nobody
    pokemonData,     \* len(pokemonData)
    gpc,             \* gpc[g]: the position of goroutine g
    spawnI,          \* loop counter i of spawnPokemon
    despawnX,        \* loop counter x of despawnPokemon
    px,              \* px[c]: p.X of the Player of handler c
    captured,        \* captured[c]: p.Captured, its length and whether it holds a nil
    pokemon          \* pokemon[c]: the local pokemon of capturePokemon is not nil

catVars == <<world, catPlayer, lock, globalMutex, pokemonData, gpc, spawnI, despawnX,
             px, captured, pokemon>>

vars == <<pc, selecting, pokedex, players, Turn, PlayerDone, i, selectedIndexes,
          reqLog, lastRead, sent, closed, winner, expCalls, beginSent, unwritable,
          catVars>>

batVars == <<pc, selecting, pokedex, players, Turn, PlayerDone, i, selectedIndexes,
             reqLog, lastRead, sent, closed, winner, expCalls, beginSent, unwritable>>

Players == {1, 2}

Other(p) == 3 - p

(***************************************************************************)
(* Bounds of the model.                                                    *)
(***************************************************************************)
\* Rejected selection requests one handlePokemonSelection call may read.
MaxRejects == 2

(***************************************************************************)
(* Program constants.                                                      *)
(***************************************************************************)
RosterSize == 3      \* for i := 0; i < 3; i++
RollN == 10          \* rand.Intn(10)

(***************************************************************************)
(* Catalogs: the content of pokedex_player1.json / pokedex_player2.json.   *)
(***************************************************************************)
Mon(n, hp, at, df, sa, sd, sp, ex) ==
    [Name |-> n, HP |-> hp, Attack |-> at, Defense |-> df, SpecialAttack |-> sa,
     SpecialDefense |-> sd, Speed |-> sp, Experience |-> ex, IsFainted |-> FALSE]

Pokedex1 ==
    << Mon("Bulbasaur",  2, 1, 8, 0, 12, 45, 0),
       Mon("Charmander", 1, 2, 6, 1, 10, 65, 0),
       Mon("Squirtle",   1, 0, 10, 1, 8, 43, 0) >>

Pokedex2 ==
    << Mon("Pikachu",    1, 2, 6, 0, 10, 90, 100),
       Mon("Eevee",      2, 1, 8, 1, 12, 45, 100),
       Mon("Meowth",     1, 0, 10, 2, 6, 43, 100) >>

Catalogs == { <<Pokedex1, Pokedex2>> }

(***************************************************************************)
(* Messages.                                                               *)
(***************************************************************************)
\* What decoder.Decode(&choice) can meet on the connection during selection:
\* a JSON value that does not fit PokemonChoice (SelErr: the error of this
\* one call), a failed read or malformed bytes (SelClosed: the decoder keeps
\* the error), a JSON object with a "choice" field, or a JSON object without
\* one (such as {"name": ...}).
SelErr == [err |-> TRUE, kept |-> FALSE, hasChoice |-> FALSE, choice |-> 0]
SelClosed == [err |-> TRUE, kept |-> TRUE, hasChoice |-> FALSE, choice |-> 0]
SelNoField == [err |-> FALSE, kept |-> FALSE, hasChoice |-> FALSE, choice |-> 0]
SelChoice(c) == [err |-> FALSE, kept |-> FALSE, hasChoice |-> TRUE, choice |-> c]

SelMsgs(n) == {SelErr, SelClosed, SelNoField} \cup {SelChoice(c) : c \in -1..n}

\* A json.Decoder that has returned a read or syntax error returns it again
\* on every later Decode: m is what the next Decode of the call can yield.
Decodes(log, m) == (Len(log) > 0 /\ log[Len(log)].kept) => m = SelClosed

\* var choice PokemonChoice; decoder.Decode(&choice): a missing field leaves
\* the zero value.
DecodedChoice(m) == IF m.hasChoice THEN m.choice ELSE 0

\* SelectionRejected without the test of selectedIndexes[choice.Choice].
C9_RejectedNoDuplicateTest(m, n, sel) ==
    \/ m.err
    \/ DecodedChoice(m) < 0
    \/ DecodedChoice(m) >= n

\* The condition of the if at line 107: the request is rejected.
SelectionRejected(m, n, sel) ==
    \/ m.err
    \/ DecodedChoice(m) < 0
    \/ DecodedChoice(m) >= n
    \/ DecodedChoice(m) \in sel

(***************************************************************************)
(* handlePokemonSelection.                                                 *)
(***************************************************************************)
\* Lines 100-102: the entry of a call, up to its first Decode.
EnterSelection(ps, p) == [ps EXCEPT ![p].Pokemons = << >>]

\* RetrySlot without the i-- of line 110.
C10_RetrySlotNoDecrement(slot) == slot + 1

\* The slot counter after a rejected request: i-- (line 110), continue, and
\* the loop's i++ (line 105).
RetrySlot(slot) == (slot - 1) + 1

\* The loop test i < 3 of line 105.
AfterSlot(slot) == IF slot < RosterSize THEN "select" ELSE "selected"

\* One iteration that rejects the request: lines 105-112.
SelectReject(m) ==
    /\ pc = "select"
    /\ Len(reqLog) - Len(players[selecting].Pokemons) < MaxRejects
    /\ Decodes(reqLog, m)
    /\ SelectionRejected(m, Len(pokedex[selecting]), selectedIndexes)
    /\ reqLog' = Append(reqLog, m)
    /\ sent' = [q \in Players |-> IF q = selecting THEN << "Invalid choice" >> ELSE << >>]
    /\ i' = RetrySlot(i)
    /\ pc' = AfterSlot(i')
    /\ UNCHANGED <<catVars, unwritable, beginSent, selecting, pokedex, players, Turn, PlayerDone,
                   selectedIndexes, lastRead, closed, winner, expCalls>>

\* One iteration that accepts the request: lines 105-107, 114-119.
SelectAccept(m) ==
    /\ pc = "select"
    /\ Decodes(reqLog, m)
    /\ ~SelectionRejected(m, Len(pokedex[selecting]), selectedIndexes)
    /\ reqLog' = Append(reqLog, m)
    /\ players' = [players EXCEPT ![selecting].Pokemons =
                       Append(@, pokedex[selecting][DecodedChoice(m) + 1])]
    /\ selectedIndexes' = selectedIndexes \cup {DecodedChoice(m)}
    /\ i' = i + 1
    /\ pc' = AfterSlot(i')
    /\ sent' = [q \in Players |-> IF q = selecting THEN << "You chose" >> ELSE << >>]
    /\ UNCHANGED <<catVars, unwritable, beginSent, selecting, pokedex, Turn, PlayerDone, lastRead, closed, winner,
                   expCalls>>

\* BarrierNotice with || in place of the && of line 133.
C25_BarrierNoticeEither(done) ==
    [q \in Players |->
        IF done[1] \/ done[2] THEN << "The battle will begin" >> ELSE << >>]

\* BarrierNotice with the second sendJSON (line 135) missing.
C11_BarrierNoticeFirstOnly(done) ==
    [q \in Players |->
        IF done[1] /\ done[2] /\ q = 1 THEN << "The battle will begin" >> ELSE << >>]

\* Lines 132-136: what the barrier sends to each player, given the done flags.
BarrierNotice(done) ==
    [q \in Players |->
        IF done[1] /\ done[2] THEN << "The battle will begin" >> ELSE << >>]

\* Lines 122-137: after the loop, the completion message, the done flag and
\* the barrier notification; then main's next call (line 384 or line 389).
SelectionDone ==
    /\ pc = "selected"
    /\ LET done == [PlayerDone EXCEPT ![selecting] = TRUE]
       IN /\ PlayerDone' = done
          /\ sent' = [q \in Players |->
                        (IF q = selecting THEN << "You have selected all" >> ELSE << >>)
                        \o BarrierNotice(done)[q]]
          /\ beginSent' = [q \in Players |-> beginSent[q] + Len(BarrierNotice(done)[q])]
    /\ IF selecting = 1
         THEN /\ selecting' = 2
              /\ players' = EnterSelection(players, 2)
              /\ pc' = "select"
         ELSE /\ selecting' = 0
              /\ players' = players
              /\ pc' = "battle"
    /\ i' = 0
    /\ selectedIndexes' = {}
    /\ reqLog' = << >>
    /\ UNCHANGED <<catVars, unwritable, pokedex, Turn, lastRead, closed, winner, expCalls>>

(***************************************************************************)
(* calculateDamage, switchPokemon, distributeExperience.                   *)
(***************************************************************************)
\* Go's integer division truncates toward zero.
GoDiv(a, b) == IF a >= 0 THEN a \div b ELSE -((-a) \div b)

\* calculateDamage without the floor of lines 151-153.
C12_calculateDamageNoFloor(attacker, defender, isSpecial, roll) ==
    LET attackStat == IF isSpecial THEN attacker.SpecialAttack ELSE attacker.Attack
        defenseStat == IF isSpecial THEN defender.SpecialDefense ELSE defender.Defense
    IN (attackStat - GoDiv(defenseStat, 2)) + roll

\* calculateDamage with the special defense used against a physical attack too.
C13_calculateDamageMixedPair(attacker, defender, isSpecial, roll) ==
    LET attackStat == IF isSpecial THEN attacker.SpecialAttack ELSE attacker.Attack
        defenseStat == defender.SpecialDefense
        damage == (attackStat - GoDiv(defenseStat, 2)) + roll
    IN IF damage < 0 THEN 0 ELSE damage

calculateDamage(attacker, defender, isSpecial, roll) ==
    LET attackStat == IF isSpecial THEN attacker.SpecialAttack ELSE attacker.Attack
        defenseStat == IF isSpecial THEN defender.SpecialDefense ELSE defender.Defense
        damage == (attackStat - GoDiv(defenseStat, 2)) + roll
    IN IF damage < 0 THEN 0 ELSE damage

\* switchPokemon without the assignment of line 159.
C27_switchPokemonStay(player) == player

\* switchPokemon stepping to the previous slot.
C18_switchPokemonBack(player) ==
    [player EXCEPT !.Active = (player.Active + Len(player.Pokemons) - 1) % Len(player.Pokemons)]

switchPokemon(player) ==
    [player EXCEPT !.Active = (player.Active + 1) % Len(player.Pokemons)]

ActiveOf(player) == player.Pokemons[player.Active + 1]

\* allFainted with the loop stopping at the first fainted Pokemon.
C4_allFaintedAny(player) ==
    \E k \in 1..Len(player.Pokemons) : player.Pokemons[k].IsFainted

\* allFainted with the test of line 252 inverted.
C5_allFaintedInverted(player) ==
    \A k \in 1..Len(player.Pokemons) : ~player.Pokemons[k].IsFainted

\* The loop of lines 250-256.
allFainted(player) ==
    \A k \in 1..Len(player.Pokemons) : player.Pokemons[k].IsFainted

RECURSIVE SumExperience(_)
SumExperience(pokemons) ==
    IF pokemons = << >> THEN 0
    ELSE Head(pokemons).Experience + SumExperience(Tail(pokemons))

\* Line 302.
expShare(totalExp) == GoDiv(totalExp, 3)

\* What one winning Pokemon's Experience becomes: the loop of lines 304-306
\* adds expShare, and the loop of lines 308-319 adds it again.
ExperienceAfter(exp, share) == (exp + share) + share

\* distributeExperience deducting the distributed Experience from the losing
\* roster.
C28_distributeExperienceDeduct(ps, w, l) ==
    LET totalExp == SumExperience(ps[l].Pokemons)
    IN IF totalExp = 0 THEN ps
       ELSE [ps EXCEPT ![w].Pokemons =
                [k \in DOMAIN @ |->
                    [@[k] EXCEPT !.Experience = ExperienceAfter(@, expShare(totalExp))]],
                       ![l].Pokemons =
                [k \in DOMAIN @ |-> [@[k] EXCEPT !.Experience = 0]]]

\* distributeExperience with totalExp summed over the winning roster.
C14_distributeExperienceWinnerTotal(ps, w, l) ==
    LET totalExp == SumExperience(ps[w].Pokemons)
    IN IF totalExp = 0 THEN ps
       ELSE [ps EXCEPT ![w].Pokemons =
                [k \in DOMAIN @ |->
                    [@[k] EXCEPT !.Experience = ExperienceAfter(@, expShare(totalExp))]]]

\* The rosters after distributeExperience(winningPlayer, losingPlayer).
distributeExperience(ps, w, l) ==
    LET totalExp == SumExperience(ps[l].Pokemons)
    IN IF totalExp = 0 THEN ps
       ELSE [ps EXCEPT ![w].Pokemons =
                [k \in DOMAIN @ |->
                    [@[k] EXCEPT !.Experience = ExperienceAfter(@, expShare(totalExp))]]]

\* The messages distributeExperience writes to the winner's connection.
distributeExperienceSent(ps, w, l) ==
    LET totalExp == SumExperience(ps[l].Pokemons)
    IN IF totalExp = 0 THEN << "No experience gained" >>
       ELSE [k \in 1..Len(ps[w].Pokemons) |-> "gained experience"]
            \o << "Each of your Pokemon gained" >>

(***************************************************************************)
(* handleBattle.                                                           *)
(***************************************************************************)
\* What currentPlayer.Conn.Read and json.Unmarshal can meet: a failed read,
\* bytes that are no JSON object of the expected shape, or a JSON object
\* whose "action" is some string (the empty string when the field is missing).
ActionTags == {"attack", "switch", "surrender", "", "dance"}
ReadFailure == [err |-> TRUE, json |-> FALSE, action |-> ""]
Garbage == [err |-> FALSE, json |-> FALSE, action |-> ""]
ActionMsg(a) == [err |-> FALSE, json |-> TRUE, action |-> a]
NoRead == [from |-> 0, msg |-> ReadFailure]

\* ReadFrom reading the opponent's connection.
C19_ReadFromOpponent(currentPlayer, opponent) == opponent

\* Line 201: the connection the action is read from.
ReadFrom(currentPlayer, opponent) == currentPlayer

\* Lines 195-197.
Prompts(cur) == [q \in Players |->
                    IF q = cur THEN << "It's your turn!" >>
                    ELSE << "Waiting for opponent's move" >>]

SendTo(out, q, m) == [out EXCEPT ![q] = Append(@, m)]

\* NextTurn without the alternation.
C1_NextTurnSame(t) == t

\* Line 285.
NextTurn(t) == 3 - t

\* FirstTurns with the comparisons of lines 176 and 178 inverted.
C16_FirstTurnsInverted(ps) ==
    LET player1Speed == ActiveOf(ps[1]).Speed
        player2Speed == ActiveOf(ps[2]).Speed
    IN IF player1Speed < player2Speed THEN {1}
       ELSE IF player2Speed < player1Speed THEN {2}
       ELSE {1, 2}

\* Lines 172-183: the possible first turn owners.
FirstTurns(ps) ==
    LET player1Speed == ActiveOf(ps[1]).Speed
        player2Speed == ActiveOf(ps[2]).Speed
    IN IF player1Speed > player2Speed THEN {1}
       ELSE IF player2Speed > player1Speed THEN {2}
       ELSE {1, 2}

\* Lines 166-183: the announcements and the first turn owner.
BattleStart ==
    /\ pc = "battle"
    /\ Turn' \in FirstTurns(players)
    /\ sent' = [q \in Players |-> << "Your Pokemon", "Opponent Pokemon" >>]
    /\ pc' = "loop"
    /\ UNCHANGED <<catVars, unwritable, beginSent, selecting, pokedex, players, PlayerDone, i, selectedIndexes,
                   reqLog, lastRead, closed, winner, expCalls>>

\* ReadFails with the opponent declared the winner by forfeit.
C21_ReadFailsForfeit ==
    /\ pc = "loop"
    /\ lastRead' = [from |-> ReadFrom(Turn, Other(Turn)), msg |-> ReadFailure]
    /\ players' = distributeExperience(players, Other(Turn), Turn)
    /\ expCalls' = Append(expCalls, <<Other(Turn), Turn>>)
    /\ winner' = Other(Turn)
    /\ sent' = SendTo(Prompts(Turn), Other(Turn), "Your opponent surrendered! You win!")
    /\ pc' = "defer"
    /\ UNCHANGED <<catVars, unwritable, beginSent, selecting, pokedex, Turn, PlayerDone, i,
                   selectedIndexes, reqLog, closed>>

\* Lines 199-205: the read fails.
ReadFails ==
    /\ pc = "loop"
    /\ lastRead' = [from |-> ReadFrom(Turn, Other(Turn)), msg |-> ReadFailure]
    /\ sent' = Prompts(Turn)
    /\ pc' = "defer"
    /\ UNCHANGED <<catVars, unwritable, beginSent, selecting, pokedex, players, Turn, PlayerDone, i, selectedIndexes,
                   reqLog, closed, winner, expCalls>>

\* ParseFails with continue in place of the return of line 217.
C7_ParseFailsRetry ==
    /\ pc = "loop"
    /\ lastRead' = [from |-> ReadFrom(Turn, Other(Turn)), msg |-> Garbage]
    /\ sent' = SendTo(Prompts(Turn), Turn, "Invalid action format")
    /\ pc' = "loop"
    /\ UNCHANGED <<catVars, unwritable, beginSent, selecting, pokedex, players, Turn, PlayerDone, i, selectedIndexes,
                   reqLog, closed, winner, expCalls>>

\* Lines 211-218: json.Unmarshal fails.
ParseFails ==
    /\ pc = "loop"
    /\ lastRead' = [from |-> ReadFrom(Turn, Other(Turn)), msg |-> Garbage]
    /\ sent' = SendTo(Prompts(Turn), Turn, "Invalid action format")
    /\ pc' = "defer"
    /\ UNCHANGED <<catVars, unwritable, beginSent, selecting, pokedex, players, Turn, PlayerDone, i, selectedIndexes,
                   reqLog, closed, winner, expCalls>>

\* ApplyDamage with the test of line 245 made before the floor of lines
\* 230-232.
C26_ApplyDamageFlagBeforeFloor(player, damage) ==
    LET a == player.Active + 1
        hp0 == player.Pokemons[a].HP - damage
        hp == IF hp0 < 0 THEN 0 ELSE hp0
    IN [player EXCEPT !.Pokemons[a].HP = hp,
                      !.Pokemons[a].IsFainted = IF hp0 = 0 THEN TRUE ELSE @]

\* ApplyDamage without the assignment of line 246.
C17_ApplyDamageNoFlag(player, damage) ==
    LET a == player.Active + 1
        hp0 == player.Pokemons[a].HP - damage
        hp == IF hp0 < 0 THEN 0 ELSE hp0
    IN [player EXCEPT !.Pokemons[a].HP = hp]

\* Lines 229-232 and 245-246: the damage lands on the defender's active
\* Pokemon, which is flagged fainted when its HP is 0.
ApplyDamage(player, damage) ==
    LET a == player.Active + 1
        hp0 == player.Pokemons[a].HP - damage
        hp == IF hp0 < 0 THEN 0 ELSE hp0
    IN [player EXCEPT !.Pokemons[a].HP = hp,
                      !.Pokemons[a].IsFainted = IF hp = 0 THEN TRUE ELSE @]

\* Lines 225-268 and 285: case "attack".
Attack(isSpecial, roll) ==
    /\ pc = "loop"
    /\ LET cur == Turn
           opp == Other(Turn)
           damage == calculateDamage(ActiveOf(players[cur]), ActiveOf(players[opp]),
                                     isSpecial, roll)
           hit == [players EXCEPT ![opp] = ApplyDamage(@, damage)]
           out1 == SendTo(SendTo(Prompts(cur), cur, "You dealt damage"),
                          opp, "dealt damage to your Pokemon")
       IN /\ lastRead' = [from |-> ReadFrom(cur, opp), msg |-> ActionMsg("attack")]
          /\ IF ActiveOf(hit[opp]).HP = 0
               THEN IF allFainted(hit[opp])
                      THEN /\ players' = distributeExperience(hit, cur, opp)
                           /\ expCalls' = Append(expCalls, <<cur, opp>>)
                           /\ winner' = cur
                           /\ sent' = [SendTo(SendTo(SendTo(out1, opp, "fainted!"),
                                                     cur, "You win!"), opp, "You lose!")
                                        EXCEPT ![cur] = @ \o distributeExperienceSent(hit, cur, opp)]
                           /\ pc' = "defer"
                           /\ Turn' = Turn
                      ELSE /\ players' = [hit EXCEPT ![opp] = switchPokemon(@)]
                           /\ sent' = SendTo(out1, opp, "fainted!")
                           /\ Turn' = NextTurn(Turn)
                           /\ UNCHANGED <<pc, winner, expCalls>>
               ELSE /\ players' = hit
                    /\ sent' = out1
                    /\ Turn' = NextTurn(Turn)
                    /\ UNCHANGED <<pc, winner, expCalls>>
    /\ UNCHANGED <<catVars, unwritable, beginSent, selecting, pokedex, PlayerDone, i, selectedIndexes, reqLog, closed>>

\* Lines 270-273 and 285: case "switch".
Switch ==
    /\ pc = "loop"
    /\ lastRead' = [from |-> ReadFrom(Turn, Other(Turn)), msg |-> ActionMsg("switch")]
    /\ players' = [players EXCEPT ![Turn] = switchPokemon(@)]
    /\ sent' = SendTo(Prompts(Turn), Turn, "Switched to")
    /\ Turn' = NextTurn(Turn)
    /\ UNCHANGED <<catVars, unwritable, beginSent, pc, selecting, pokedex, PlayerDone, i, selectedIndexes, reqLog,
                   closed, winner, expCalls>>

\* Surrender without the call of distributeExperience (line 279).
C15_SurrenderNoReward ==
    /\ pc = "loop"
    /\ LET cur == Turn
           opp == Other(Turn)
       IN /\ lastRead' = [from |-> ReadFrom(cur, opp), msg |-> ActionMsg("surrender")]
          /\ players' = players
          /\ expCalls' = expCalls
          /\ winner' = opp
          /\ sent' = SendTo(SendTo(Prompts(cur), cur, "You surrendered! Game over."),
                            opp, "Your opponent surrendered! You win!")
    /\ pc' = "defer"
    /\ UNCHANGED <<catVars, unwritable, beginSent, selecting, pokedex, Turn, PlayerDone, i, selectedIndexes,
                   reqLog, closed>>

\* Surrender with the arguments of distributeExperience swapped and the win
\* message sent to the surrendering player.
C6_SurrenderSwapped ==
    /\ pc = "loop"
    /\ LET cur == Turn
           opp == Other(Turn)
       IN /\ lastRead' = [from |-> ReadFrom(cur, opp), msg |-> ActionMsg("surrender")]
          /\ players' = distributeExperience(players, cur, opp)
          /\ expCalls' = Append(expCalls, <<cur, opp>>)
          /\ winner' = cur
          /\ sent' = [SendTo(SendTo(Prompts(cur), opp, "You surrendered! Game over."),
                             cur, "Your opponent surrendered! You win!")
                        EXCEPT ![cur] = @ \o distributeExperienceSent(players, cur, opp)]
    /\ pc' = "defer"
    /\ UNCHANGED <<catVars, unwritable, beginSent, selecting, pokedex, Turn, PlayerDone, i, selectedIndexes, reqLog,
                   closed>>

\* Lines 275-280: case "surrender".
Surrender ==
    /\ pc = "loop"
    /\ LET cur == Turn
           opp == Other(Turn)
       IN /\ lastRead' = [from |-> ReadFrom(cur, opp), msg |-> ActionMsg("surrender")]
          /\ players' = distributeExperience(players, opp, cur)
          /\ expCalls' = Append(expCalls, <<opp, cur>>)
          /\ winner' = opp
          /\ sent' = [SendTo(SendTo(Prompts(cur), cur, "You surrendered! Game over."),
                             opp, "Your opponent surrendered! You win!")
                        EXCEPT ![opp] = @ \o distributeExperienceSent(players, opp, cur)]
    /\ pc' = "defer"
    /\ UNCHANGED <<catVars, unwritable, beginSent, selecting, pokedex, Turn, PlayerDone, i, selectedIndexes, reqLog,
                   closed>>

\* Lines 224-285: the switch statement has no default case; any other tag
\* falls through to line 285.
OtherAction(a) ==
    /\ pc = "loop"
    /\ a \notin {"attack", "switch", "surrender"}
    /\ lastRead' = [from |-> ReadFrom(Turn, Other(Turn)), msg |-> ActionMsg(a)]
    /\ sent' = Prompts(Turn)
    /\ Turn' = NextTurn(Turn)
    /\ UNCHANGED <<catVars, unwritable, beginSent, pc, selecting, pokedex, players, PlayerDone, i, selectedIndexes,
                   reqLog, closed, winner, expCalls>>

\* BattleReturn with the deferred Close of line 164 missing.
C20_BattleReturnFirstOnly ==
    /\ pc = "defer"
    /\ closed' = [q \in Players |-> q = 1]
    /\ sent' = [q \in Players |-> << >>]
    /\ pc' = "exit"
    /\ UNCHANGED <<catVars, unwritable, beginSent, selecting, pokedex, players, Turn, PlayerDone, i,
                   selectedIndexes, reqLog, lastRead, winner, expCalls>>

\* Lines 163-164: the deferred Close calls run when handleBattle returns.
BattleReturn ==
    /\ pc = "defer"
    /\ closed' = [q \in Players |-> TRUE]
    /\ sent' = [q \in Players |-> << >>]
    /\ pc' = "exit"
    /\ UNCHANGED <<catVars, unwritable, beginSent, selecting, pokedex, players, Turn, PlayerDone, i, selectedIndexes,
                   reqLog, lastRead, winner, expCalls>>

\* sendJSON (lines 60-65): once the peer of p's connection is gone, Encode
\* returns an error on it; sendJSON prints the error and returns nothing.
WriteBreaks(p) ==
    /\ pc = "loop"
    /\ p \notin unwritable
    /\ unwritable' = unwritable \cup {p}
    /\ UNCHANGED <<catVars, pc, beginSent, selecting, pokedex, players, Turn, PlayerDone, i,
                   selectedIndexes, reqLog, lastRead, sent, closed, winner, expCalls>>

(***************************************************************************)
(* The map server, src/POKECAT1/poke.go.  The model keeps one row of the   *)
(* grid (the X coordinate); every access of a cell, and every acquisition  *)
(* and release of a mutex, is a step of its own.                           *)
(***************************************************************************)
MapSize == 2           \* cells of the row (MapSize = 20 in the source)
PokemonPerWave == 2    \* PokemonPerWave = 50 in the source
MaxPokemons == 2       \* MaxPokemons = 200 in the source

Spawner == "spawnPokemon"        \* the goroutine of lines 234-239
Despawner == "despawnPokemon"    \* the goroutine of lines 241-246
Conns == {"conn1", "conn2"}      \* the goroutines that run wsHandler
Goroutines == {Spawner, Despawner} \cup Conns
Nobody == "nobody"
NoPlayer == "nil"
Cells == 0..(MapSize - 1)

\* The state of the map server with n entries loaded from pokemon.json, when
\* main has started the two goroutines and no connection has arrived.
CatStart(n) ==
    /\ world = [x \in Cells |-> FALSE]
    /\ catPlayer = NoPlayer
    /\ lock = Nobody
    /\ globalMutex = Nobody
    /\ pokemonData = n
    /\ gpc = [g \in Goroutines |-> IF g \in Conns THEN "idle" ELSE "sleep"]
    /\ spawnI = 0
    /\ despawnX = 0
    /\ px = [c \in Conns |-> 0]
    /\ captured = [c \in Conns |-> [n |-> 0, nils |-> FALSE]]
    /\ pokemon = [c \in Conns |-> FALSE]

\* The map server is not running.
CatIdle == CatStart(0)

\* A nil dereference in the despawner goroutine is an unrecovered panic: the
\* process exits.
Crashed == gpc[Despawner] = "panic"

\* spawnPokemon, lines 73-74: lock.Lock().
SpawnLock ==
    /\ ~Crashed
    /\ gpc[Spawner] = "sleep"
    /\ lock = Nobody
    /\ lock' = Spawner
    /\ spawnI' = 0
    /\ gpc' = [gpc EXCEPT ![Spawner] = "wave"]
    /\ UNCHANGED <<batVars, world, catPlayer, globalMutex, pokemonData, despawnX, px,
                   captured, pokemon>>

\* Lines 76-93: one iteration, which writes the cell x = rand.Intn(MapSize).
SpawnOne(x) ==
    /\ ~Crashed
    /\ gpc[Spawner] = "wave"
    /\ spawnI < PokemonPerWave
    /\ pokemonData # 0
    /\ world' = [world EXCEPT ![x] = TRUE]
    /\ spawnI' = spawnI + 1
    /\ UNCHANGED <<batVars, catPlayer, lock, globalMutex, pokemonData, gpc, despawnX, px,
                   captured, pokemon>>

\* Lines 77-80 and the end of the loop: return, and the deferred Unlock.
SpawnReturn ==
    /\ ~Crashed
    /\ gpc[Spawner] = "wave"
    /\ spawnI >= PokemonPerWave \/ pokemonData = 0
    /\ lock' = Nobody
    /\ gpc' = [gpc EXCEPT ![Spawner] = "sleep"]
    /\ UNCHANGED <<batVars, world, catPlayer, globalMutex, pokemonData, spawnI, despawnX,
                   px, captured, pokemon>>

\* despawnPokemon, lines 98-101.
DespawnLock ==
    /\ ~Crashed
    /\ gpc[Despawner] = "sleep"
    /\ lock = Nobody
    /\ lock' = Despawner
    /\ despawnX' = 0
    /\ gpc' = [gpc EXCEPT ![Despawner] = "scan"]
    /\ UNCHANGED <<batVars, world, catPlayer, globalMutex, pokemonData, spawnI, px,
                   captured, pokemon>>

\* Line 104, first operand: world[x].Pokemon != nil.
DespawnTest ==
    /\ ~Crashed
    /\ gpc[Despawner] = "scan"
    /\ despawnX < MapSize
    /\ IF world[despawnX]
         THEN /\ gpc' = [gpc EXCEPT ![Despawner] = "age"]
              /\ despawnX' = despawnX
         ELSE /\ gpc' = gpc
              /\ despawnX' = despawnX + 1
    /\ UNCHANGED <<batVars, world, catPlayer, lock, globalMutex, pokemonData, spawnI, px,
                   captured, pokemon>>

\* Line 104, second operand, and line 105: world[x].Pokemon is read again
\* and dereferenced for SpawnedAt; the cell is cleared when the Pokemon has
\* outlived PokemonLifetime.
DespawnAge(expired) ==
    /\ ~Crashed
    /\ gpc[Despawner] = "age"
    /\ IF world[despawnX]
         THEN /\ world' = [world EXCEPT ![despawnX] = ~expired]
              /\ despawnX' = despawnX + 1
              /\ gpc' = [gpc EXCEPT ![Despawner] = "scan"]
         ELSE /\ gpc' = [gpc EXCEPT ![Despawner] = "panic"]
              /\ UNCHANGED <<world, despawnX>>
    /\ UNCHANGED <<batVars, catPlayer, lock, globalMutex, pokemonData, spawnI, px,
                   captured, pokemon>>

\* The end of the loops of lines 102-108: return, and the deferred Unlock.
DespawnReturn ==
    /\ ~Crashed
    /\ gpc[Despawner] = "scan"
    /\ despawnX >= MapSize
    /\ lock' = Nobody
    /\ gpc' = [gpc EXCEPT ![Despawner] = "sleep"]
    /\ UNCHANGED <<batVars, world, catPlayer, globalMutex, pokemonData, spawnI, despawnX,
                   px, captured, pokemon>>

\* wsHandler, lines 161-165: a connection arrives and is upgraded, or not.
Upgrade(c, ok) ==
    /\ ~Crashed
    /\ gpc[c] = "idle"
    /\ gpc' = [gpc EXCEPT ![c] = IF ok THEN "addPlayer" ELSE "done"]
    /\ UNCHANGED <<batVars, world, catPlayer, lock, globalMutex, pokemonData, spawnI,
                   despawnX, px, captured, pokemon>>

\* AddPlayer without the test of line 116.
C31_AddPlayerNoTest(c, x) ==
    /\ ~Crashed
    /\ gpc[c] = "addPlayer"
    /\ lock = Nobody
    /\ catPlayer' = c
    /\ px' = [px EXCEPT ![c] = x]
    /\ captured' = [captured EXCEPT ![c] = [n |-> 0, nils |-> FALSE]]
    /\ gpc' = [gpc EXCEPT ![c] = "loop"]
    /\ UNCHANGED <<batVars, world, lock, globalMutex, pokemonData, spawnI, despawnX,
                   pokemon>>

\* addPlayer (lines 112-126) under lock, and lines 167-175 of wsHandler: the
\* handler returns when a player is registered, else it registers its own at
\* X = x.
AddPlayer(c, x) ==
    /\ ~Crashed
    /\ gpc[c] = "addPlayer"
    /\ lock = Nobody
    /\ IF catPlayer # NoPlayer
         THEN /\ gpc' = [gpc EXCEPT ![c] = "done"]
              /\ UNCHANGED <<catPlayer, px, captured>>
         ELSE /\ catPlayer' = c
              /\ px' = [px EXCEPT ![c] = x]
              /\ captured' = [captured EXCEPT ![c] = [n |-> 0, nils |-> FALSE]]
              /\ gpc' = [gpc EXCEPT ![c] = "loop"]
    /\ UNCHANGED <<batVars, world, lock, globalMutex, pokemonData, spawnI, despawnX,
                   pokemon>>

\* gameLoop, lines 190-197: the grid is copied into the message, which is
\* written to the socket, or the write fails.
GameLoopSend(c, ok) ==
    /\ ~Crashed
    /\ gpc[c] = "loop"
    /\ gpc' = [gpc EXCEPT ![c] = IF ok THEN "read" ELSE "defer"]
    /\ UNCHANGED <<batVars, world, catPlayer, lock, globalMutex, pokemonData, spawnI,
                   despawnX, px, captured, pokemon>>

\* What ReadJSON yields: an error, a capture request, a move by dx, or a
\* message with neither.
MoveFail == [err |-> TRUE, capture |-> FALSE, hasDx |-> FALSE, dx |-> 0]
MoveCapture == [err |-> FALSE, capture |-> TRUE, hasDx |-> FALSE, dx |-> 0]
MoveBy(d) == [err |-> FALSE, capture |-> FALSE, hasDx |-> TRUE, dx |-> d]
MoveNone == [err |-> FALSE, capture |-> FALSE, hasDx |-> FALSE, dx |-> 0]
Moves == {MoveFail, MoveCapture, MoveNone} \cup {MoveBy(d) : d \in {-1, 1}}

\* Lines 213-217: the move is applied when it stays on the map.
Moved(x, m) ==
    IF m.hasDx /\ x + m.dx >= 0 /\ x + m.dx < MapSize THEN x + m.dx ELSE x

\* Lines 199-225 of gameLoop and 130-133 of capturePokemon: the message is
\* read and capturePokemon is entered.
GameLoopRead(c, m) ==
    /\ ~Crashed
    /\ gpc[c] = "read"
    /\ IF m.err
         THEN /\ gpc' = [gpc EXCEPT ![c] = "defer"]
              /\ px' = px
         ELSE /\ px' = [px EXCEPT ![c] = IF m.capture THEN @ ELSE Moved(@, m)]
              /\ gpc' = [gpc EXCEPT ![c] =
                            IF px'[c] < 0 \/ px'[c] >= MapSize THEN "loop" ELSE "capLock"]
    /\ UNCHANGED <<batVars, world, catPlayer, lock, globalMutex, pokemonData, spawnI,
                   despawnX, captured, pokemon>>

\* capturePokemon, lines 135-136: globalMutex.Lock().
CaptureLock(c) ==
    /\ ~Crashed
    /\ gpc[c] = "capLock"
    /\ globalMutex = Nobody
    /\ globalMutex' = c
    /\ gpc' = [gpc EXCEPT ![c] = "c139"]
    /\ UNCHANGED <<batVars, world, catPlayer, lock, pokemonData, spawnI, despawnX, px,
                   captured, pokemon>>

\* Line 139: the loop test reads cell.Pokemon.
CaptureTest(c) ==
    /\ ~Crashed
    /\ gpc[c] = "c139"
    /\ gpc' = [gpc EXCEPT ![c] =
                  IF world[px[c]] /\ captured[c].n < MaxPokemons THEN "c140" ELSE "c149"]
    /\ UNCHANGED <<batVars, world, catPlayer, lock, globalMutex, pokemonData, spawnI,
                   despawnX, px, captured, pokemon>>

\* Line 140: cell.Pokemon is read again and appended to p.Captured.
CaptureAppend(c) ==
    /\ ~Crashed
    /\ gpc[c] = "c140"
    /\ captured' = [captured EXCEPT ![c] =
                       [n |-> @.n + 1, nils |-> @.nils \/ ~world[px[c]]]]
    /\ gpc' = [gpc EXCEPT ![c] = "c141"]
    /\ UNCHANGED <<batVars, world, catPlayer, lock, globalMutex, pokemonData, spawnI,
                   despawnX, px, pokemon>>

\* Line 141: pokemon := cell.Pokemon.
CaptureLoad(c) ==
    /\ ~Crashed
    /\ gpc[c] = "c141"
    /\ pokemon' = [pokemon EXCEPT ![c] = world[px[c]]]
    /\ gpc' = [gpc EXCEPT ![c] = "c142"]
    /\ UNCHANGED <<batVars, world, catPlayer, lock, globalMutex, pokemonData, spawnI,
                   despawnX, px, captured>>

\* Line 142: cell.Pokemon = nil.
CaptureClear(c) ==
    /\ ~Crashed
    /\ gpc[c] = "c142"
    /\ world' = [world EXCEPT ![px[c]] = FALSE]
    /\ gpc' = [gpc EXCEPT ![c] = "c144"]
    /\ UNCHANGED <<batVars, catPlayer, lock, globalMutex, pokemonData, spawnI, despawnX,
                   px, captured, pokemon>>

\* Lines 144-147: pokemon.Name is printed, which panics on a nil pokemon;
\* the deferred Unlock runs and the panic leaves gameLoop.
CapturePrint(c) ==
    /\ ~Crashed
    /\ gpc[c] = "c144"
    /\ IF pokemon[c]
         THEN /\ gpc' = [gpc EXCEPT ![c] = "c139"]
              /\ globalMutex' = globalMutex
         ELSE /\ gpc' = [gpc EXCEPT ![c] = "defer"]
              /\ globalMutex' = Nobody
    /\ UNCHANGED <<batVars, world, catPlayer, lock, pokemonData, spawnI, despawnX, px,
                   captured, pokemon>>

\* Line 149: cell.Pokemon is read for the message.
CaptureRecheck(c) ==
    /\ ~Crashed
    /\ gpc[c] = "c149"
    /\ gpc' = [gpc EXCEPT ![c] = "c154"]
    /\ UNCHANGED <<batVars, world, catPlayer, lock, globalMutex, pokemonData, spawnI,
                   despawnX, px, captured, pokemon>>

\* Lines 153-157: the names of p.Captured are printed, which panics on a nil
\* entry; return, and the deferred Unlock.
CaptureReturn(c) ==
    /\ ~Crashed
    /\ gpc[c] = "c154"
    /\ globalMutex' = Nobody
    /\ gpc' = [gpc EXCEPT ![c] = IF captured[c].nils THEN "defer" ELSE "loop"]
    /\ UNCHANGED <<batVars, world, catPlayer, lock, pokemonData, spawnI, despawnX, px,
                   captured, pokemon>>

\* wsHandler, lines 177-182: the deferred function clears catPlayer under lock.
HandlerReturn(c) ==
    /\ ~Crashed
    /\ gpc[c] = "defer"
    /\ lock = Nobody
    /\ catPlayer' = NoPlayer
    /\ gpc' = [gpc EXCEPT ![c] = "done"]
    /\ UNCHANGED <<batVars, world, lock, globalMutex, pokemonData, spawnI, despawnX,
                   px, captured, pokemon>>


(***************************************************************************)
(* main.                                                                   *)
(***************************************************************************)
\* Lines 364-383: the game state main builds, at the first Decode of
\* handlePokemonSelection(&gameState.Player1, ...).
BatInit ==
    /\ pokedex \in Catalogs
    /\ players = EnterSelection(
                    [p \in Players |-> [Pokemons |-> pokedex[p], Active |-> 0]], 1)
    /\ Turn = 1
    /\ PlayerDone = [p \in Players |-> FALSE]
    /\ pc = "select"
    /\ selecting = 1
    /\ i = 0
    /\ selectedIndexes = {}
    /\ reqLog = << >>
    /\ lastRead = NoRead
    /\ sent = [p \in Players |-> << >>]
    /\ closed = [p \in Players |-> FALSE]
    /\ winner = 0
    /\ expCalls = << >>
    /\ beginSent = [p \in Players |-> 0]
    /\ unwritable = {}

\* The battle server runs alone: no goroutine of the map server exists.
Init == BatInit /\ CatIdle

\* handlePokemonSelection, for both players in turn (lines 383-384).
SelectionNext ==
    \/ \E m \in SelMsgs(Len(pokedex[1])) \cup SelMsgs(Len(pokedex[2])) : SelectReject(m)
    \/ \E m \in SelMsgs(Len(pokedex[1])) \cup SelMsgs(Len(pokedex[2])) : SelectAccept(m)
    \/ SelectionDone

\* handleBattle (line 389).
BattleNext ==
    \/ BattleStart
    \/ ReadFails
    \/ ParseFails
    \/ \E isSpecial \in BOOLEAN, roll \in 0..(RollN - 1) : Attack(isSpecial, roll)
    \/ Switch
    \/ Surrender
    \/ \E a \in ActionTags : OtherAction(a)
    \/ BattleReturn

Next == SelectionNext \/ BattleNext

\* The whole run of main.
Spec == Init /\ [][Next]_vars

\* The selection phase alone: main up to the call of handleBattle.
SelectionSpec == Init /\ [][SelectionNext]_vars

\* The rosters the battle is explored from: for each player the catalog
\* indices of its three accepted selections, in the order of acceptance.
BattlePicks ==
    { << <<0, 1, 2>>, <<1, 0, 2>> >>,      \* equal Speed of the two first picks
      << <<1, 2, 0>>, <<1, 2, 0>> >>,      \* player 1's first pick is faster
      << <<2, 0, 1>>, <<0, 2, 1>> >> }     \* player 2's first pick is faster

RosterOf(catalog, picks) == [k \in 1..Len(picks) |-> catalog[picks[k] + 1]]

\* The state in which main calls handleBattle (line 389), both selections
\* having completed with the picks above.
BattleInit ==
    /\ pokedex \in Catalogs
    /\ \E picks \in BattlePicks :
          players = [p \in Players |->
                        [Pokemons |-> RosterOf(pokedex[p], picks[p]), Active |-> 0]]
    /\ Turn = 1
    /\ PlayerDone = [p \in Players |-> TRUE]
    /\ pc = "battle"
    /\ selecting = 0
    /\ i = 0
    /\ selectedIndexes = {}
    /\ reqLog = << >>
    /\ lastRead = NoRead
    /\ sent = [p \in Players |->
                 (IF p = 2 THEN << "You have selected all" >> ELSE << >>)
                 \o << "The battle will begin" >>]
    /\ closed = [p \in Players |-> FALSE]
    /\ winner = 0
    /\ expCalls = << >>
    /\ beginSent = [p \in Players |-> 1]
    /\ unwritable = {}
    /\ CatIdle

\* The battle alone, from the rosters above.
BattleSpec == BattleInit /\ [][BattleNext]_vars

\* main from the start of the selection up to the end of the first iteration
\* of the battle loop (no action has been read before it).
OpeningNext ==
    \/ SelectionNext
    \/ BattleStart
    \/ /\ lastRead = NoRead
       /\ \/ ReadFails
          \/ ParseFails
          \/ \E isSpecial \in BOOLEAN, roll \in 0..(RollN - 1) : Attack(isSpecial, roll)
          \/ Switch
          \/ Surrender
          \/ \E a \in ActionTags : OtherAction(a)
    \/ BattleReturn

OpeningSpec == Init /\ [][OpeningNext]_vars

\* The battle server is not running.
BatIdle == BatInit

\* main of poke.go (lines 230-251) with pokemon.json empty or not.
CatInit == BatIdle /\ \E n \in 0..1 : CatStart(n)

CatNext ==
    \/ SpawnLock
    \/ \E x \in Cells : SpawnOne(x)
    \/ SpawnReturn
    \/ DespawnLock
    \/ DespawnTest
    \/ \E expired \in BOOLEAN : DespawnAge(expired)
    \/ DespawnReturn
    \/ \E c \in Conns :
          \/ \E ok \in BOOLEAN : Upgrade(c, ok)
          \/ \E x \in Cells : AddPlayer(c, x)
          \/ \E ok \in BOOLEAN : GameLoopSend(c, ok)
          \/ \E m \in Moves : GameLoopRead(c, m)
          \/ CaptureLock(c)
          \/ CaptureTest(c)
          \/ CaptureAppend(c)
          \/ CaptureLoad(c)
          \/ CaptureClear(c)
          \/ CapturePrint(c)
          \/ CaptureReturn(c)
          \/ CaptureRecheck(c)
          \/ HandlerReturn(c)

CatSpec == CatInit /\ [][CatNext]_vars

\* Catalogs for the exploration of calculateDamage: three Pokemon whose
\* attack and defense stats cover a strong attacker (Attack 50 against
\* Defense 20), a defender whose defense floors every damage at 0, and odd
\* defense values; each catalog lists them from a different first entry.
DamageMons ==
    << Mon("Machop",   100, 50, 20, 5, 41, 35, 0),
       Mon("Shuckle",   6,   0, 150, 3,  7,  5, 0),
       Mon("Geodude",   6,   1, 21, 10,  1, 20, 0) >>

DamageDex(first) == [k \in 1..3 |-> DamageMons[((first + k - 1) % 3) + 1]]

DamageCatalogs == { <<DamageDex(f1), DamageDex(f2)>> : f1, f2 \in 0..2 }

\* The state in which main calls handleBattle, both players having selected
\* the indices 0, 1, 2 of such a catalog.
DamageInit ==
    /\ pokedex \in DamageCatalogs
    /\ players = [p \in Players |->
                    [Pokemons |-> RosterOf(pokedex[p], <<0, 1, 2>>), Active |-> 0]]
    /\ Turn = 1
    /\ PlayerDone = [p \in Players |-> TRUE]
    /\ pc = "battle"
    /\ selecting = 0
    /\ i = 0
    /\ selectedIndexes = {}
    /\ reqLog = << >>
    /\ lastRead = NoRead
    /\ sent = [p \in Players |->
                 (IF p = 2 THEN << "You have selected all" >> ELSE << >>)
                 \o << "The battle will begin" >>]
    /\ closed = [p \in Players |-> FALSE]
    /\ winner = 0
    /\ expCalls = << >>
    /\ beginSent = [p \in Players |-> 1]
    /\ unwritable = {}
    /\ CatIdle

\* Battles of attacks only.
DamageNext ==
    \/ BattleStart
    \/ \E isSpecial \in BOOLEAN, roll \in 0..(RollN - 1) : Attack(isSpecial, roll)
    \/ BattleReturn

DamageSpec == DamageInit /\ [][DamageNext]_vars

\* Case "attack" for a roll that deals at least 1 damage.
DamagingAttack(isSpecial, roll) ==
    /\ pc = "loop"
    /\ calculateDamage(ActiveOf(players[Turn]), ActiveOf(players[Other(Turn)]),
                       isSpecial, roll) >= 1
    /\ Attack(isSpecial, roll)

\* Battles in which both players keep submitting attacks, no read fails and
\* every attack deals damage: the loop is never left waiting.
AttackNext ==
    \/ BattleStart
    \/ \E isSpecial \in BOOLEAN, roll \in 0..(RollN - 1) : DamagingAttack(isSpecial, roll)
    \/ BattleReturn

\* Every order in which a player can have selected the three catalog entries.
PickOrders ==
    {picks \in [1..RosterSize -> 0..(RosterSize - 1)] :
        \A j, k \in 1..RosterSize : j # k => picks[j] # picks[k]}

\* The state in which main calls handleBattle (line 389), for every pair of
\* rosters the two selections can have built.
AttackInit ==
    /\ pokedex \in Catalogs
    /\ \E picks1, picks2 \in PickOrders :
          players = [p \in Players |->
                        [Pokemons |-> RosterOf(pokedex[p], IF p = 1 THEN picks1 ELSE picks2),
                         Active |-> 0]]
    /\ Turn = 1
    /\ PlayerDone = [p \in Players |-> TRUE]
    /\ pc = "battle"
    /\ selecting = 0
    /\ i = 0
    /\ selectedIndexes = {}
    /\ reqLog = << >>
    /\ lastRead = NoRead
    /\ sent = [p \in Players |->
                 (IF p = 2 THEN << "You have selected all" >> ELSE << >>)
                 \o << "The battle will begin" >>]
    /\ closed = [p \in Players |-> FALSE]
    /\ winner = 0
    /\ expCalls = << >>
    /\ beginSent = [p \in Players |-> 1]
    /\ unwritable = {}
    /\ CatIdle

AttackSpec == AttackInit /\ [][AttackNext]_vars /\ WF_vars(AttackNext)

\* The battle with connections that stop accepting writes, from the rosters
\* in which player 1's first pick is the faster one.
WriteInit == BattleInit /\ ActiveOf(players[1]).Speed > ActiveOf(players[2]).Speed

WriteNext == BattleNext \/ \E p \in Players : WriteBreaks(p)

WriteSpec == WriteInit /\ [][WriteNext]_vars

\* The states the battle is explored from are states the selection reaches.
BattleInitReached == pc = "battle" /\ BattleInit

(***************************************************************************)
(* Properties.                                                             *)
(***************************************************************************)
Contains(seq, x) == \E k \in 1..Len(seq) : seq[k] = x

\* A roster is defeated when all three of its Pokemon are flagged fainted.
Defeated(p) ==
    /\ Len(players[p].Pokemons) = RosterSize
    /\ \A k \in 1..RosterSize : players[p].Pokemons[k].IsFainted

SomeFainted(p) == \E k \in 1..Len(players[p].Pokemons) : players[p].Pokemons[k].IsFainted

SomeStanding(p) == \E k \in 1..Len(players[p].Pokemons) : ~players[p].Pokemons[k].IsFainted

\* The step reads message m from the turn owner.
Reads(m) == pc = "loop" /\ lastRead' = [from |-> Turn, msg |-> m]

\* The battle fields of the rosters: HP, fainted flags and active indices.
BattleFields(ps) ==
    [p \in Players |->
        [Active |-> ps[p].Active,
         HP |-> [k \in 1..Len(ps[p].Pokemons) |-> ps[p].Pokemons[k].HP],
         IsFainted |-> [k \in 1..Len(ps[p].Pokemons) |-> ps[p].Pokemons[k].IsFainted]]]

\* C1: after an attack or a switch that does not end the match, Turn passes
\* to the other player before the next action is read; a step that ends the
\* match (surrender, or the attack that faints the defender's last Pokemon)
\* leaves Turn as it is, and Turn never changes after the loop has ended.
C1_TurnAlternates ==
    [][ /\ (\E a \in {"attack", "switch"} : Reads(ActionMsg(a)) /\ pc' = "loop")
            => Turn' = Other(Turn)
        /\ (pc = "loop" /\ pc' # "loop") => Turn' = Turn
        /\ pc \in {"defer", "exit"} => (Turn' = Turn /\ pc' # "loop") ]_vars

\* An attack has fainted the defender's active Pokemon, the defender's roster
\* survives, and the turn has passed to the defender.
C1_Witness ==
    /\ pc = "loop"
    /\ lastRead.msg = ActionMsg("attack")
    /\ Turn = Other(lastRead.from)
    /\ Contains(sent[Turn], "fainted!")
    /\ SomeFainted(Turn) /\ SomeStanding(Turn)

\* C2: in the battle, a player with a Pokemon that is not fainted has an
\* Active index that references a Pokemon that is not fainted.
C2_ActiveNotFainted ==
    pc \in {"loop", "defer", "exit"} =>
        \A p \in Players : SomeStanding(p) => ~ActiveOf(players[p]).IsFainted

\* The catalog entry a Pokemon of that name was copied from.
CatalogEntry(p, name) ==
    pokedex[p][CHOOSE k \in 1..Len(pokedex[p]) : pokedex[p][k].Name = name]

\* C3: once distributeExperience(winner, loser) has run with a total loser
\* Experience above 0, each of the winner's Pokemon has gained exactly
\* totalExp / 3 over the Experience it was selected with.
C3_ExperienceShare ==
    \A c \in 1..Len(expCalls) :
        LET w == expCalls[c][1]
            l == expCalls[c][2]
            totalExp == SumExperience(players[l].Pokemons)
        IN totalExp > 0 =>
              \A k \in 1..Len(players[w].Pokemons) :
                  players[w].Pokemons[k].Experience =
                      CatalogEntry(w, players[w].Pokemons[k].Name).Experience
                          + (totalExp \div 3)

\* C4: a winner has been declared exactly when an attack has left a roster
\* defeated or the turn owner has surrendered; the winner is the other player,
\* and the match has then ended.
C4_WinnerIffDefeatOrSurrender ==
    /\ (winner # 0) <=> \/ \E p \in Players : Defeated(p)
                        \/ lastRead.msg = ActionMsg("surrender")
    /\ \A p \in Players :
          Defeated(p) => (winner = Other(p) /\ lastRead.msg = ActionMsg("attack"))
    /\ lastRead.msg = ActionMsg("surrender") => winner = Other(lastRead.from)
    /\ winner # 0 => pc \in {"defer", "exit"}

\* The match has ended by the defeat of the loser's roster.
C4_Witness ==
    /\ pc = "exit"
    /\ winner # 0
    /\ Defeated(Other(winner))
    /\ lastRead.msg = ActionMsg("attack")

\* C5: when an attack has left the defender's roster defeated, the attacker
\* is the winner, distributeExperience has been invoked once with the attacker
\* as winner and the defender as loser, and no connection is closed before
\* handleBattle returns after that invocation.
C5_AttackerWinsOnDefeat ==
    \A p \in Players :
        Defeated(p) =>
            /\ lastRead = [from |-> Other(p), msg |-> ActionMsg("attack")]
            /\ winner = Other(p)
            /\ expCalls = << <<Other(p), p>> >>
            /\ Contains(sent[Other(p)], "You win!") \/ pc = "exit"
            /\ (\E q \in Players : closed[q]) => pc = "exit"

\* The defender's roster is defeated, distributeExperience has run and both
\* connections are still open.
C5_Witness ==
    /\ pc = "defer"
    /\ \E p \in Players : Defeated(p) /\ expCalls = << <<Other(p), p>> >>
    /\ \A q \in Players : ~closed[q]

\* C6: a surrender declares the opponent the winner, invokes
\* distributeExperience(opponent, surrendering player), changes no HP, fainted
\* flag or active index, and ends the loop: no further action is read.
C6_Surrender ==
    [][ /\ Reads(ActionMsg("surrender")) =>
              /\ winner' = Other(Turn)
              /\ expCalls' = Append(expCalls, <<Other(Turn), Turn>>)
              /\ Contains(sent'[Other(Turn)], "Your opponent surrendered! You win!")
              /\ BattleFields(players') = BattleFields(players)
              /\ pc' = "defer"
        /\ pc \in {"defer", "exit"} => (lastRead' = lastRead /\ pc' # "loop") ]_vars

\* A player with a fainted Pokemon has surrendered and the opponent was
\* declared the winner.
C6_Witness ==
    /\ pc = "defer"
    /\ lastRead.msg = ActionMsg("surrender")
    /\ winner = Other(lastRead.from)
    /\ SomeFainted(lastRead.from)

\* C7: a message that cannot be parsed ends the loop at once: no winner is
\* declared, distributeExperience is not invoked, the rosters and Turn are
\* unchanged, and the return closes both connections.
C7_ParseErrorAborts ==
    [][ /\ Reads(Garbage) =>
              /\ pc' = "defer"
              /\ UNCHANGED <<players, Turn, winner, expCalls, closed>>
              /\ winner = 0
        /\ pc = "defer" =>
              /\ pc' = "exit"
              /\ \A q \in Players : closed'[q]
              /\ UNCHANGED <<players, Turn, winner, expCalls, lastRead>> ]_vars

\* The match was aborted by an unparseable message after some damage, and
\* both connections are closed.
C7_Witness ==
    /\ pc = "exit"
    /\ lastRead.msg = Garbage
    /\ winner = 0 /\ expCalls = << >>
    /\ \A q \in Players : closed[q]
    /\ \E p \in Players : SomeFainted(p)

\* C8: a message that parses but whose action tag is none of attack, switch,
\* surrender aborts the match with no winner, and Turn does not pass to the
\* opponent.
C8_UnknownTagAborts ==
    [][ \A a \in ActionTags \ {"attack", "switch", "surrender"} :
            Reads(ActionMsg(a)) => (pc' = "defer" /\ Turn' = Turn /\ winner' = 0) ]_vars

(***************************************************************************)
(* Properties of the selection.                                            *)
(***************************************************************************)
\* The catalog indices a sequence of requests selects, by the rule of the
\* Roster Builder: a request is accepted when its index is within the catalog
\* and was not accepted before, until three are accepted.
RECURSIVE AcceptedPicks(_, _, _)
AcceptedPicks(log, n, acc) ==
    IF log = << >> \/ Len(acc) = RosterSize THEN acc
    ELSE LET c == Head(log).choice
         IN IF c >= 0 /\ c < n /\ ~Contains(acc, c)
              THEN AcceptedPicks(Tail(log), n, Append(acc, c))
              ELSE AcceptedPicks(Tail(log), n, acc)

OnlyChoices(log) == \A k \in 1..Len(log) : log[k].hasChoice /\ ~log[k].err

PairwiseDistinct(seq) ==
    \A j, k \in 1..Len(seq) : j # k => seq[j] # seq[k]

\* Index c was read, and the position of the first request that carried it.
WasRead(log, c) == \E j \in 1..Len(log) : ~log[j].err /\ DecodedChoice(log[j]) = c

FirstRead(log, c) ==
    CHOOSE j \in 1..Len(log) :
        /\ ~log[j].err /\ DecodedChoice(log[j]) = c
        /\ \A j2 \in 1..(j - 1) : log[j2].err \/ DecodedChoice(log[j2]) # c

\* C9: when handlePokemonSelection has completed for a player, the player's
\* roster holds exactly three Pokemon copied from three pairwise distinct
\* catalog indices, in the order in which the selections were accepted, and
\* the Active index is 0.
C9_RosterComplete ==
    \A p \in Players :
        (PlayerDone[p] \/ (pc = "selected" /\ selecting = p)) =>
            /\ Len(players[p].Pokemons) = 3
            /\ players[p].Active = 0
            /\ \E picks \in [1..3 -> 0..(Len(pokedex[p]) - 1)] :
                  /\ PairwiseDistinct(picks)
                  /\ players[p].Pokemons = RosterOf(pokedex[p], picks)
                  /\ (pc = "selected" /\ selecting = p) =>
                        /\ selectedIndexes = {picks[k] : k \in 1..3}
                        /\ \A k \in 1..3 : WasRead(reqLog, picks[k])
                        /\ \A k \in 1..2 :
                              FirstRead(reqLog, picks[k]) < FirstRead(reqLog, picks[k + 1])

\* Both players have completed their selections, player 1 with the picks
\* 2, 0, 1 in that order.
C9_Witness ==
    /\ pc = "battle"
    /\ PlayerDone[1] /\ PlayerDone[2]
    /\ players[1].Pokemons = RosterOf(pokedex[1], <<2, 0, 1>>)
    /\ Len(players[2].Pokemons) = 3

\* The request read by the step: an index outside the catalog or already
\* accepted.
ReadsInvalidIndex ==
    /\ pc = "select"
    /\ reqLog' # reqLog
    /\ LET m == reqLog'[Len(reqLog')]
       IN /\ m.hasChoice /\ ~m.err
          /\ \/ m.choice < 0
             \/ m.choice >= Len(pokedex[selecting])
             \/ m.choice \in selectedIndexes

\* C10: a request whose index is outside the catalog or was already accepted
\* is rejected with no state change (roster, accepted indices and slot counter
\* stay), and the slot is filled by the next valid request: the roster is at
\* every point the accepted picks of the requests read so far.
C10_RejectKeepsSlot ==
    [][ /\ ReadsInvalidIndex =>
              /\ UNCHANGED <<players, selectedIndexes, i, pc, PlayerDone>>
              /\ sent'[selecting] = << "Invalid choice" >>
        /\ (pc = "select" /\ OnlyChoices(reqLog')) =>
              /\ players'[selecting].Pokemons =
                    RosterOf(pokedex[selecting],
                             AcceptedPicks(reqLog', Len(pokedex[selecting]), << >>))
              /\ i' = Len(players'[selecting].Pokemons) ]_vars

\* The requests 1, 1, 2, 0 have been read and the roster is 1, 2, 0.
C10_Witness ==
    /\ pc = "selected"
    /\ reqLog = << SelChoice(1), SelChoice(1), SelChoice(2), SelChoice(0) >>
    /\ players[selecting].Pokemons = RosterOf(pokedex[selecting], <<1, 2, 0>>)

(***************************************************************************)
(* Properties of the start of the battle, of damage and of the reward.     *)
(***************************************************************************)
\* C11: no turn prompt has been sent and no action has been read unless both
\* players have completed their three selections and both have been sent the
\* "battle will begin" notification.
C11_NoTurnBeforeBarrier ==
    (\/ \E p \in Players : Contains(sent[p], "It's your turn!")
     \/ lastRead # NoRead
     \/ pc \in {"loop", "defer", "exit"})
        => \A p \in Players :
              /\ PlayerDone[p]
              /\ Len(players[p].Pokemons) = RosterSize
              /\ beginSent[p] >= 1

\* The first action has been read from a prompted turn owner, after both
\* players were notified.
C11_Witness ==
    /\ lastRead # NoRead
    /\ Contains(sent[lastRead.from], "It's your turn!")
    /\ \A p \in Players : PlayerDone[p] /\ beginSent[p] = 1

\* The HP a Pokemon had when it was selected from the catalog.
MaxHP(p, k) == CatalogEntry(p, players[p].Pokemons[k].Name).HP

\* C12: in every battle state every Pokemon of both rosters has
\* 0 <= HP <= the HP it was selected with, and no attack that can be computed
\* in the state has negative damage.
C12_HPBounds ==
    pc \in {"battle", "loop", "defer", "exit"} =>
        /\ \A p \in Players : \A k \in 1..Len(players[p].Pokemons) :
              /\ 0 <= players[p].Pokemons[k].HP
              /\ players[p].Pokemons[k].HP <= MaxHP(p, k)
        /\ \A p \in Players : \A isSpecial \in BOOLEAN, roll \in 0..(RollN - 1) :
              calculateDamage(ActiveOf(players[p]), ActiveOf(players[Other(p)]),
                              isSpecial, roll) >= 0

\* An attack whose unfloored damage is negative for some roll has left the
\* defender's active Pokemon at its full HP.
C12_Witness ==
    /\ pc = "loop"
    /\ lastRead.msg = ActionMsg("attack")
    /\ LET att == ActiveOf(players[lastRead.from])
           def == ActiveOf(players[Turn])
       IN /\ att.Attack - (def.Defense \div 2) < 0
          /\ def.HP = MaxHP(Turn, players[Turn].Active + 1)
          /\ ~SomeFainted(Turn)

\* The attack and defense stats of the pair an attack uses.
AttackStatOf(attacker, isSpecial) ==
    IF isSpecial THEN attacker.SpecialAttack ELSE attacker.Attack

DefenseStatOf(defender, isSpecial) ==
    IF isSpecial THEN defender.SpecialDefense ELSE defender.Defense

Max0(x) == IF x > 0 THEN x ELSE 0

\* C13: for every attack that can be computed in a battle state, with A and D
\* the attacker's and defender's stats of the same pair, calculateDamage is in
\* [max(0, A - D/2), max(0, A - D/2) + 9] for every roll in 0..9; with A = 50,
\* D = 20 and roll 5 it is 45.
C13_DamageRange ==
    pc = "loop" =>
        \A p \in Players : \A isSpecial \in BOOLEAN, roll \in 0..9 :
            LET attacker == ActiveOf(players[p])
                defender == ActiveOf(players[Other(p)])
                A == AttackStatOf(attacker, isSpecial)
                D == DefenseStatOf(defender, isSpecial)
                low == Max0(A - (D \div 2))
                damage == calculateDamage(attacker, defender, isSpecial, roll)
            IN /\ low <= damage /\ damage <= low + 9
               /\ (A = 50 /\ D = 20 /\ roll = 5) => damage = 45

\* An attacker with Attack 50 has hit a defender with Defense 20 and HP 100,
\* which is left with HP 55.
C13_Witness ==
    /\ pc = "loop"
    /\ lastRead.msg = ActionMsg("attack")
    /\ ActiveOf(players[lastRead.from]).Attack = 50
    /\ ActiveOf(players[Turn]).Defense = 20
    /\ ActiveOf(players[Turn]).HP = 55
    /\ MaxHP(Turn, players[Turn].Active + 1) = 100

\* The step invokes distributeExperience(w, l).
Rewards(w, l) == expCalls' = Append(expCalls, <<w, l>>)

\* C14: when the losing roster's Experience sums to 0, distributeExperience
\* leaves the winning roster unchanged, Experience included, and changes no
\* Experience of the losing roster; on a surrender no roster field changes.
C14_ZeroTotalNoGain ==
    [][ \A w, l \in Players :
            (Rewards(w, l) /\ SumExperience(players[l].Pokemons) = 0) =>
                /\ players'[w] = players[w]
                /\ \A k \in 1..Len(players[l].Pokemons) :
                      players'[l].Pokemons[k].Experience = players[l].Pokemons[k].Experience
                /\ Reads(ActionMsg("surrender")) => players' = players ]_vars

\* Player 2 has won against a roster without Experience and was told that no
\* experience was gained.
C14_Witness ==
    /\ pc = "defer"
    /\ expCalls = << <<2, 1>> >>
    /\ SumExperience(players[1].Pokemons) = 0
    /\ Contains(sent[2], "No experience gained")
    /\ \A k \in 1..RosterSize : players[2].Pokemons[k].Experience = 100

\* C15: distributeExperience is invoked at most once in a run, not before the
\* loop ends, exactly once when the run ends with a declared winner and never
\* when it ends by a read or parse error.
C15_RewardOnce ==
    /\ Len(expCalls) <= 1
    /\ pc \notin {"defer", "exit"} => expCalls = << >>
    /\ pc \in {"defer", "exit"} =>
          /\ winner # 0 => Len(expCalls) = 1
          /\ lastRead.msg \in {ReadFailure, Garbage} => (expCalls = << >> /\ winner = 0)
          /\ lastRead.msg \in {ActionMsg("surrender"), ActionMsg("attack")} =>
                (winner # 0 /\ Len(expCalls) = 1)

\* The run has ended by a surrender with one invocation.
C15_Witness ==
    /\ pc = "exit"
    /\ lastRead.msg = ActionMsg("surrender")
    /\ expCalls = << <<Other(lastRead.from), lastRead.from>> >>

\* C16: handleBattle gives the first turn to player 1 when its active Pokemon
\* is strictly faster, to player 2 when that one is, and to either at equal
\* Speed; afterwards Turn only alternates or stays, whatever the Speeds.
C16_FirstTurnBySpeed ==
    [][ /\ pc = "battle" =>
              LET player1Speed == ActiveOf(players[1]).Speed
                  player2Speed == ActiveOf(players[2]).Speed
              IN /\ player1Speed > player2Speed => Turn' = 1
                 /\ player2Speed > player1Speed => Turn' = 2
                 /\ Turn' \in Players
        /\ pc = "loop" => Turn' = (IF pc' = "loop" THEN Other(Turn) ELSE Turn)
        /\ pc \in {"defer", "exit"} => Turn' = Turn ]_vars

\* At equal Speed player 2 was given the first turn.
C16_Witness ==
    /\ pc = "loop"
    /\ lastRead = NoRead
    /\ ActiveOf(players[1]).Speed = ActiveOf(players[2]).Speed
    /\ Turn = 2

C18_SwitchOnlyActive ==
    [][ Reads(ActionMsg("switch")) =>
          /\ players' = [players EXCEPT ![Turn].Active = (@ + 1) % 3]
          /\ Contains(sent'[Turn], "Switched to")
          /\ ~Contains(sent'[Other(Turn)], "Switched to") ]_vars

\* A player whose Active was 2 has switched and its Active is 0 again.
C18_Witness ==
    /\ pc = "loop"
    /\ lastRead.msg = ActionMsg("switch")
    /\ players[lastRead.from].Active = 0
    /\ Turn = Other(lastRead.from)

\* The players whose HP, flags or Active the step changes.
Touched == {p \in Players : BattleFields(players')[p] # BattleFields(players)[p]}

\* C19: every iteration of the battle loop reads one message, from the turn
\* owner's connection, after the owner was sent the turn prompt and the
\* opponent the waiting notice, and resolves at most one action: it changes
\* the battle fields of at most one roster and Turn at most once.
C19_OneReadFromOwner ==
    [][ pc = "loop" =>
          /\ lastRead'.from = Turn
          /\ Len(sent'[Turn]) >= 1 /\ sent'[Turn][1] = "It's your turn!"
          /\ Len(sent'[Other(Turn)]) >= 1
          /\ sent'[Other(Turn)][1] = "Waiting for opponent's move"
          /\ ~Contains(sent'[Other(Turn)], "It's your turn!")
          /\ Cardinality(Touched) <= 1
          /\ Turn' \in {Turn, Other(Turn)} ]_vars

\* Player 2 owned the turn, was prompted, and its attack was resolved.
C19_Witness ==
    /\ pc = "loop"
    /\ lastRead = [from |-> 2, msg |-> ActionMsg("attack")]
    /\ sent[2][1] = "It's your turn!"
    /\ sent[1][1] = "Waiting for opponent's move"
    /\ Turn = 1

\* C20: the loop ends at most once, and once it has ended the return closes
\* both connections and no roster field, turn owner, winner or Experience
\* changes afterwards; no connection is closed while the loop runs.
C20_EndsOnce ==
    [][ /\ pc \in {"defer", "exit"} =>
              /\ pc' = "exit"
              /\ UNCHANGED <<players, Turn, winner, expCalls, lastRead>>
        /\ pc' = "exit" => \A q \in Players : closed'[q]
        /\ pc' # "exit" => \A q \in Players : ~closed'[q] ]_vars

\* The loop ended by a failed read after a faint, and both connections are
\* closed.
C20_Witness ==
    /\ pc = "exit"
    /\ lastRead.msg = ReadFailure
    /\ \A q \in Players : closed[q]
    /\ \E p \in Players : SomeFainted(p)

\* No message of the step tells a player that it has won.
NoWinMessage(out) ==
    \A q \in Players :
        /\ ~Contains(out[q], "You win!")
        /\ ~Contains(out[q], "Your opponent surrendered! You win!")

\* C21: when the read of the turn owner's action fails, the loop exits with
\* no winner, no win message, no call of distributeExperience and no change
\* of a roster or of the turn owner.
C21_ReadFailureNoResult ==
    [][ Reads(ReadFailure) =>
          /\ pc' = "defer"
          /\ winner' = 0 /\ expCalls' = << >>
          /\ NoWinMessage(sent')
          /\ UNCHANGED <<players, Turn>> ]_vars

\* Player 2's read failed in mid-battle and the loop has exited.
C21_Witness ==
    /\ pc = "defer"
    /\ lastRead = [from |-> 2, msg |-> ReadFailure]
    /\ Turn = 2 /\ winner = 0 /\ expCalls = << >>
    /\ SomeFainted(1) /\ SomeStanding(1) /\ SomeStanding(2)

\* C22: once a connection has stopped accepting writes, the iteration whose
\* prompts fail on it exits the loop without obtaining an action from a
\* read, without resolving one and without a winner.
C22_WriteFailureFatal ==
    [][ (pc = "loop" /\ unwritable # {} /\ unwritable' = unwritable) =>
          /\ pc' = "defer"
          /\ lastRead' = lastRead \/ lastRead'.msg = ReadFailure
          /\ winner' = 0
          /\ UNCHANGED <<players, Turn>> ]_vars

\* C23: a selection request whose read fails on a closed or broken connection
\* ends the selection and the session.
C23_ReadFailureEndsSelection ==
    [][ (pc = "select" /\ reqLog' = Append(reqLog, SelClosed)) => pc' = "exit" ]_vars

\* C24: whenever an attack is resolved, the attacker's active Pokemon is not
\* fainted and has HP above 0, and the defender's active Pokemon is not
\* fainted.
C24_AttackerStanding ==
    [][ Reads(ActionMsg("attack")) =>
          /\ ~ActiveOf(players[Turn]).IsFainted
          /\ ActiveOf(players[Turn]).HP > 0
          /\ ~ActiveOf(players[Other(Turn)]).IsFainted ]_vars

BothDone == PlayerDone[1] /\ PlayerDone[2]

\* C25: each player has been sent the "battle will begin" notification once
\* when both done flags are set and not at all before; it is written only
\* by a step that ends with both flags set.
C25_BeginOnce ==
    \A q \in Players :
        /\ beginSent[q] = (IF BothDone THEN 1 ELSE 0)
        /\ Contains(sent[q], "The battle will begin") => BothDone

\* Both selections have completed, the first action of the battle has been
\* resolved, and each player holds one notification.
C25_Witness ==
    /\ pc = "loop"
    /\ lastRead.msg = ActionMsg("attack")
    /\ BothDone
    /\ \A q \in Players : beginSent[q] = 1

\* C26: whenever the battle loop waits for an action, a Pokemon is flagged
\* fainted exactly when its HP is 0; no step resets a flag or raises an HP.
C26_FaintedIffNoHP ==
    [][ \A p \in Players : \A k \in 1..Len(players[p].Pokemons) :
          LET old == players[p].Pokemons[k]
              new == players'[p].Pokemons[k]
          IN /\ pc' = "loop" => (new.IsFainted <=> new.HP = 0)
             /\ old.IsFainted => new.IsFainted
             /\ new.HP <= old.HP ]_vars

\* The loop waits while a player has a fainted Pokemon at HP 0 and a wounded
\* one that still stands.
C26_Witness ==
    /\ pc = "loop"
    /\ \E p \in Players : \E k, j \in 1..RosterSize :
          /\ players[p].Pokemons[k].IsFainted /\ players[p].Pokemons[k].HP = 0
          /\ ~players[p].Pokemons[j].IsFainted
          /\ players[p].Pokemons[j].HP > 0
          /\ players[p].Pokemons[j].HP < MaxHP(p, j)

\* C27: a battle of damaging attacks only, with no failed read, eventually
\* ends with a declared winner whose opponent's three Pokemon are fainted.
C27_AttacksEndMatch ==
    <>(pc = "exit" /\ winner # 0 /\ Defeated(Other(winner)))

\* Such a battle has ended: the loser's roster is defeated by attacks alone.
C27_Witness ==
    /\ pc = "exit"
    /\ winner # 0
    /\ Defeated(Other(winner))
    /\ lastRead = [from |-> winner, msg |-> ActionMsg("attack")]
    /\ SomeStanding(winner)

\* The Experience values of a roster.
ExperienceOf(player) == [k \in 1..Len(player.Pokemons) |-> player.Pokemons[k].Experience]

\* C28: a step that invokes distributeExperience(w, l) changes no Experience
\* of l's roster, and no field of it at all when the step is a surrender; a
\* step after which the loop continues changes no Experience of any roster.
C28_LoserKeepsExperience ==
    [][ /\ \A w, l \in Players :
              Rewards(w, l) =>
                  /\ ExperienceOf(players'[l]) = ExperienceOf(players[l])
                  /\ Reads(ActionMsg("surrender")) => players'[l] = players[l]
        /\ pc' = "loop" =>
              \A p \in Players : ExperienceOf(players'[p]) = ExperienceOf(players[p]) ]_vars

\* Player 1 has won by defeat, has gained Experience, and the losing roster
\* still has its 100 each.
C28_Witness ==
    /\ pc = "defer"
    /\ expCalls = << <<1, 2>> >>
    /\ Defeated(2)
    /\ ExperienceOf(players[2]) = <<100, 100, 100>>
    /\ \A k \in 1..RosterSize : players[1].Pokemons[k].Experience > 0

\* C29: a step of the selection that fills a roster slot has read a message
\* that carries a choice field.
C29_SlotNeedsChoiceField ==
    [][ (pc = "select"
            /\ Len(players'[selecting].Pokemons) > Len(players[selecting].Pokemons))
          => reqLog'[Len(reqLog')].hasChoice ]_vars

\* The cells of the grid the next step of goroutine g reads, and writes.
GridReads(g) ==
    IF g = Despawner
      THEN IF (gpc[g] = "scan" /\ despawnX < MapSize) \/ gpc[g] = "age"
             THEN {despawnX} ELSE {}
    ELSE IF g \in Conns
      THEN IF gpc[g] = "loop" THEN Cells
           ELSE IF gpc[g] \in {"c139", "c140", "c141", "c149"} THEN {px[g]}
           ELSE {}
    ELSE {}

GridWrites(g) ==
    IF g = Spawner
      THEN IF gpc[g] = "wave" /\ spawnI < PokemonPerWave /\ pokemonData # 0
             THEN Cells ELSE {}
    ELSE IF g = Despawner
      THEN IF gpc[g] = "age" THEN {despawnX} ELSE {}
    ELSE IF gpc[g] = "c142" THEN {px[g]}
    ELSE {}

AtGrid(g) == GridReads(g) \cup GridWrites(g) # {}

\* C30: in the map server one mutex is held by every goroutine whose next
\* step reads or writes the grid, and no goroutine is about to write a cell
\* that another goroutine is about to read or write.
C30_GridUnderOneMutex ==
    /\ \/ \A g \in Goroutines : AtGrid(g) => lock = g
       \/ \A g \in Goroutines : AtGrid(g) => globalMutex = g
    /\ \A g, h \in Goroutines :
          g # h => GridWrites(g) \cap (GridReads(h) \cup GridWrites(h)) = {}

\* Handler c has registered its player and has not returned.
Registered(c) == gpc[c] \notin {"idle", "addPlayer", "done"}

\* C31: in the map server at most one handler has a registered player, and
\* the global player is that handler's (nil when there is none); addPlayer
\* called while a player is registered makes its handler return and leaves
\* the registered player's slot, position and captures as they are; the
\* return of the registered handler clears the slot.
C31_OnePlayer ==
    /\ [](\A c \in Conns :
            /\ Registered(c) => catPlayer = c
            /\ catPlayer = c => Registered(c))
    /\ [][ \A c \in Conns :
             /\ (gpc[c] = "addPlayer" /\ gpc'[c] # "addPlayer" /\ catPlayer # NoPlayer) =>
                   /\ gpc'[c] = "done"
                   /\ UNCHANGED <<catPlayer, px, captured>>
             /\ (gpc[c] = "addPlayer" /\ gpc'[c] # "addPlayer" /\ catPlayer = NoPlayer) =>
                   (catPlayer' = c /\ Registered(c)')
             /\ (Registered(c) /\ ~Registered(c)') => catPlayer' = NoPlayer ]_vars

\* conn1 registered, captured a Pokemon and returned; conn2, which arrived
\* later, is now the registered player.
C31_Witness ==
    /\ gpc["conn1"] = "done"
    /\ captured["conn1"].n > 0
    /\ catPlayer = "conn2"
    /\ gpc["conn2"] = "read"

====
